---- MODULE Spec2Model ----
(***************************************************************************)
(* A model of the digest parsing / extraction code of src/digest.py:       *)
(*   parse_line_with_links, markdown_to_notion_blocks, extract_table_value,*)
(*   fetch_realtime_market_data, extract_digest_properties and the part of *)
(*   send_to_notion that calls them.                                       *)
(*                                                                         *)
(* Texts are TLA+ strings.  The module is ASCII, so every non-ASCII        *)
(* character of the source's literals is written as one ASCII stand-in     *)
(* character (lengths in code points are kept):                            *)
(*     U+2605 filled star "@"   U+2606 empty star "^"   U+2014 em-dash "~" *)
(*     U+1F4A1 (bulb) "!"       U+1F3AF (target) "?"                       *)
(* and, inside the literals that the source searches the text for, each    *)
(* Hangul syllable (in the order of the source; any other letter of a text *)
(* is itself):                                                             *)
(*     si a   jang b  re c    jim d   mo e    deu f   geul g  ro h         *)
(*     beol i sim j   ri k    byeon l dong m  seong n hwan o  gyeong p     *)
(*     bun q  seok r  hwak s  sin t   do u    han v   jul w   yo x         *)
(*     yak y  wi z    gi B    choe C  u E     seon F  gwan G  ban H        *)
(*     che J  geum L  ji M    jeong N hak Q   sil T   jeok Z  ja D         *)
(*     jae K  te O    i P     syeon R chi S   jung U  guk W                *)
(*     nyeon {  mul }  won $  dal ;   reo _                                *)
(* Literals that are only written to the result (the sentinels and the     *)
(* default title and summary) are named in English.                        *)
(* Floats are fixed-point integers in units of 1/Scale.                    *)
(***************************************************************************)
EXTENDS Integers, Sequences, FiniteSets, TLC

VARIABLES
    op,             \* which operation this run models
    text,           \* the argument: [type |-> "str", value |-> <string>],
                    \* or NoneValue for an argument that is not text
    pc,             \* position in the running operation
    vals,           \* the locals vix, sp500, kospi, usdkrw, bond_10y
    textVals,       \* vals as they are when line 957 is reached
    cats,           \* the locals confidence, market_mode, ... (strings)
    realtime_data,  \* the dict built by fetch_realtime_market_data
    symIdx,         \* position of the for loop over symbols (lines 793-812)
    fetchCalls,     \* number of calls of fetch_realtime_market_data
    downloads,      \* the calls of yf.download in order: symbol and outcome
    properties,     \* the dict returned by extract_digest_properties
    lines,          \* markdown_to_notion_blocks: text.split('\n')
    i,              \* markdown_to_notion_blocks: the loop index
    blocks,         \* markdown_to_notion_blocks: the list being built
    blockLines,     \* for each block, the index in `lines` of its line
    children,       \* send_to_notion: payload["children"]
    rich_text,      \* the list returned by parse_line_with_links
    raised,         \* the exception that left the operation, or "none"
    report,         \* main: the run report dict
    called,         \* main: the send_* functions called so far, in order
    written,        \* main: the reports handed to write_run_report
    chunk_size,     \* split_for_slack: the argument chunk_size
    remaining,      \* split_for_slack: the local remaining
    chunks          \* split_for_slack: the list being built

vars == <<op, text, pc, vals, textVals, cats, realtime_data, symIdx,
          fetchCalls, downloads, properties, lines, i, blocks, blockLines,
          children, rich_text, raised, report, called, written,
          chunk_size, remaining, chunks>>

\* the variables of split_for_slack
slackVars == <<chunk_size, remaining, chunks>>

\* the variables of main
mainVars == <<report, called, written>>

\* the variables of the other operations
digestVars == <<text, vals, textVals, cats, realtime_data, symIdx,
                fetchCalls, downloads, properties, lines, i, blocks,
                blockLines, children, rich_text>>

-----------------------------------------------------------------------------
(* Python str primitives, 0-based as in the source.                        *)

Str(s) == [type |-> "str", value |-> s]

NoneValue == [type |-> "NoneType", value |-> ""]

IsStr(x) == x.type = "str"

\* s[a:b] for 0 <= a, b (Python clamps the bounds to len(s))
Slice(s, a, b) ==
    LET hi == IF b > Len(s) THEN Len(s) ELSE b
    IN  IF a >= hi THEN "" ELSE SubSeq(s, a + 1, hi)

\* s[a:]
SliceFrom(s, a) == Slice(s, a, Len(s))

CharAt(s, k) == SubSeq(s, k + 1, k + 1)

StartsWithAt(s, p, k) ==
    k + Len(p) <= Len(s) /\ Slice(s, k, k + Len(p)) = p

StartsWith(s, p) == StartsWithAt(s, p, 0)

\* the least element of a non-empty set of integers
Min(S) == CHOOSE k \in S : \A j \in S : k <= j

\* the greatest element of a non-empty set of integers
Max(S) == CHOOSE k \in S : \A j \in S : k >= j

\* s.find(p, k) for k >= 0: the least index >= k where p occurs, or -1
FindFrom(s, p, k) ==
    LET hits == {j \in k..(Len(s) - Len(p)) : StartsWithAt(s, p, j)}
    IN  IF hits = {} THEN -1 ELSE Min(hits)

Find(s, p) == FindFrom(s, p, 0)

Contains(s, p) == Find(s, p) # -1

Whitespace == {" ", "\t", "\n", "\r"}

RECURSIVE LStrip(_)
LStrip(s) ==
    IF s # "" /\ Head(s) \in Whitespace THEN LStrip(Tail(s)) ELSE s

RECURSIVE RStrip(_)
RStrip(s) ==
    IF s # "" /\ CharAt(s, Len(s) - 1) \in Whitespace
    THEN RStrip(Slice(s, 0, Len(s) - 1)) ELSE s

\* s.strip()
Strip(s) == RStrip(LStrip(s))

RECURSIVE Split(_, _)
\* s.split(sep), for a separator no two occurrences of which overlap (every
\* separator of the source): the parts between the occurrences, in order;
\* always at least one part.  The string is cut at the occurrence nearest
\* to its middle, so that the depth of the recursion stays logarithmic.
Split(s, sep) ==
    LET hits  == {j \in 0..(Len(s) - Len(sep)) : StartsWithAt(s, sep, j)}
        right == {j \in hits : 2 * j >= Len(s)}
        k     == IF right # {} THEN Min(right) ELSE Max(hits)
    IN  IF hits = {} THEN <<s>>
        ELSE Split(Slice(s, 0, k), sep) \o Split(SliceFrom(s, k + Len(sep)), sep)

\* s.count(c) for a one-character c
Count(s, c) == Cardinality({j \in 0..(Len(s) - 1) : CharAt(s, j) = c})

Digits == {"0", "1", "2", "3", "4", "5", "6", "7", "8", "9"}

DigitVal(c) ==
    CASE c = "0" -> 0 [] c = "1" -> 1 [] c = "2" -> 2 [] c = "3" -> 3
      [] c = "4" -> 4 [] c = "5" -> 5 [] c = "6" -> 6 [] c = "7" -> 7
      [] c = "8" -> 8 [] c = "9" -> 9

RECURSIVE DigitRun(_, _)
\* the end of the longest run of digits of s that starts at k  (\d*)
DigitRun(s, k) ==
    IF k < Len(s) /\ CharAt(s, k) \in Digits THEN DigitRun(s, k + 1) ELSE k


UpperCase == "ABCDEFGHIJKLMNOPQRSTUVWXYZ"

LowerCase == "abcdefghijklmnopqrstuvwxyz"

LowerOf ==
    [c \in {CharAt(UpperCase, k) : k \in 0..25} |->
        CharAt(LowerCase, Find(UpperCase, c))]

\* c.lower() for one character
LowerChar(c) == IF c \in DOMAIN LowerOf THEN LowerOf[c] ELSE c

RECURSIVE Lower(_)
Lower(s) == IF s = "" THEN "" ELSE LowerChar(Head(s)) \o Lower(Tail(s))

\* the non-empty p matches at k, letters compared without case
\* (re.IGNORECASE); the first character is compared first
StartsWithAtCI(s, p, k) ==
    /\ k + Len(p) <= Len(s)
    /\ LowerChar(CharAt(s, k)) = LowerChar(Head(p))
    /\ Lower(Slice(s, k, k + Len(p))) = Lower(p)

-----------------------------------------------------------------------------
(* float values: fixed point, in units of 1/Scale                          *)

\* the decimal places kept of a float
FracDigits == 4

Scale == 10 ^ FracDigits

RECURSIVE DigitsToInt(_, _)
\* the value of a string of digits, read after the accumulator acc
DigitsToInt(s, acc) ==
    IF s = "" THEN acc ELSE DigitsToInt(Tail(s), 10 * acc + DigitVal(Head(s)))

RECURSIVE PadRight(_, _)
PadRight(s, n) == IF Len(s) >= n THEN Slice(s, 0, n) ELSE PadRight(s \o "0", n)

\* float(g) for g matching \d+\.?\d*
ParseFloat(g) ==
    LET dot  == Find(g, ".")
        ip   == IF dot = -1 THEN g ELSE Slice(g, 0, dot)
        fp   == IF dot = -1 THEN "" ELSE SliceFrom(g, dot + 1)
    IN  DigitsToInt(ip, 0) * Scale + DigitsToInt(PadRight(fp, FracDigits), 0)

\* round(v / den, nd) of a fixed-point value v: the multiple of 10^-nd
\* nearest to v / den, ties to the even one (Python's round)
Round(v, den, nd) ==
    LET unit == 10 ^ (FracDigits - nd)
        q    == v \div (den * unit)
        r    == v % (den * unit)
    IN  IF 2 * r > den * unit \/ (2 * r = den * unit /\ q % 2 = 1)
        THEN (q + 1) * unit ELSE q * unit

-----------------------------------------------------------------------------
(* The regular expressions of extract_digest_properties.  A match is a     *)
(* record [found, start, stop, g0, g1]: span of the match and of group 1.  *)

NoMatch == [found |-> FALSE, start |-> -1, stop |-> -1, g0 |-> -1, g1 |-> -1]

RECURSIVE SepRun(_, _)
\* the end of the longest run of [:\s] characters that starts at k
SepRun(s, k) ==
    IF k < Len(s) /\ CharAt(s, k) \in Whitespace \cup {":"}
    THEN SepRun(s, k + 1) ELSE k

RECURSIVE SpaceRun(_, _)
\* the end of the longest run of \s characters that starts at k
SpaceRun(s, k) ==
    IF k < Len(s) /\ CharAt(s, k) \in Whitespace
    THEN SpaceRun(s, k + 1) ELSE k

\* The end of the match of \d{lo,hi}\.?\d* at k, or -1.  Every quantifier
\* is greedy and what follows each can always match the empty string, so
\* the regex engine never backtracks: with more than hi digits the \.? is
\* tried between two digits and matches nothing.  hi = -1 stands for \d+.
NumberEnd(s, k, lo, hi) ==
    LET e == DigitRun(s, k)
        n == e - k
    IN  IF n < lo THEN -1
        ELSE IF hi # -1 /\ n > hi THEN e
        ELSE IF e < Len(s) /\ CharAt(s, e) = "." THEN DigitRun(s, e + 1)
        ELSE e

\* label [:\s]+ (\d{lo,hi}\.?\d*) suffix, anchored at k, re.IGNORECASE
LabelNumberAt(s, k, label, lo, hi, suffix) ==
    IF ~ StartsWithAtCI(s, label, k) THEN NoMatch
    ELSE LET a == k + Len(label)
             b == SepRun(s, a)
             e == IF b > a THEN NumberEnd(s, b, lo, hi) ELSE -1
         IN  IF e = -1 \/ ~ StartsWithAt(s, suffix, e) THEN NoMatch
             ELSE [found |-> TRUE, start |-> k, stop |-> e + Len(suffix),
                   g0 |-> b, g1 |-> e]

\* re.search(label [:\s]+ (\d{lo,hi}\.?\d*) suffix, s, re.IGNORECASE)
\* from position k: the leftmost match
SearchLabelNumber(s, k, label, lo, hi, suffix) ==
    LET hits == {j \in k..Len(s) :
                    LabelNumberAt(s, j, label, lo, hi, suffix).found}
    IN  IF hits = {} THEN NoMatch
        ELSE LabelNumberAt(s, Min(hits), label, lo, hi, suffix)

\* S&P\s*500[:\s]+(\d{4,5}\.?\d*) anchored at k
SP500At(s, k) ==
    IF ~ StartsWithAtCI(s, "S&P", k) THEN NoMatch
    ELSE LET a == SpaceRun(s, k + 3)
         IN  IF ~ StartsWithAt(s, "500", a) THEN NoMatch
             ELSE LET b == SepRun(s, a + 3)
                      e == IF b > a + 3 THEN NumberEnd(s, b, 4, 5) ELSE -1
                  IN  IF e = -1 THEN NoMatch
                      ELSE [found |-> TRUE, start |-> k, stop |-> e,
                            g0 |-> b, g1 |-> e]

\* re.search of the pattern above in s from position k
SearchSP500(s, k) ==
    LET hits == {j \in k..Len(s) : SP500At(s, j).found}
    IN  IF hits = {} THEN NoMatch ELSE SP500At(s, Min(hits))

\* re.search(r'(\d+\.?\d*)', s) from position k
SearchNumber(s, k) ==
    LET hits == {j \in k..(Len(s) - 1) : NumberEnd(s, j, 1, -1) # -1}
        b    == Min(hits)
        e    == NumberEnd(s, b, 1, -1)
    IN  IF hits = {} THEN NoMatch
        ELSE [found |-> TRUE, start |-> b, stop |-> e, g0 |-> b, g1 |-> e]

Group1(s, m) == Slice(s, m.g0, m.g1)


-----------------------------------------------------------------------------
(* extract_table_value                                                     *)

\* lines 756-761: the third part of the first line that starts with
\* "| row_key" and has at least three |-separated parts, else ""
FirstRowValue(ls, row_key) ==
    LET rows == {n \in 1..Len(ls) :
                    /\ StartsWith(Strip(ls[n]), "| " \o row_key)
                    /\ Len(Split(ls[n], "|")) >= 3}
    IN  IF rows = {} THEN "" ELSE Strip(Split(ls[Min(rows)], "|")[3])

ExtractTableValue(t, section_marker, row_key) ==
    LET section_start == Find(t, section_marker)
        next_section  ==
            FindFrom(t, "\n## ", section_start + Len(section_marker))
        section_text  ==
            IF next_section # -1 THEN Slice(t, section_start, next_section)
            ELSE SliceFrom(t, section_start)
    IN  IF section_start = -1 THEN ""
        ELSE FirstRowValue(Split(section_text, "\n"), row_key)

-----------------------------------------------------------------------------
(* The literals of extract_digest_properties                               *)

RegimeMarker == "## 0. ab cd"

MarketModeKey == "ab ef"

GlobalSentimentKey == "ghi jk"

VolatilityKey == "lmn op"

ConfidenceKey == "qr stu"

SummaryAnchor == "! vw xy:"

AtmosphereAnchor == "**ab qzB**:"

PriorityAnchor == "**? CEF Gj**:"

Star == "@"

Unknown == "unknown"

DefaultSummary == "daily market analysis"

DefaultTitle == "daily trading digest"

KeywordList == <<"HuJ", "Lk", "AI", "MNQ", "TZ", "L", "$DK", "hOPR", "NS", "UW">>

\* Tiers with the order of the tiers reversed: what C5 must tell apart
Tiers_Reversed == [k \in 1..5 |->
            CASE k = 1 -> "@@@@@ (90%+)"
              [] k = 2 -> "@@@@^ (70-89%)"
              [] k = 3 -> "@@@^^ (50-69%)"
              [] k = 4 -> "@@^^^ (30-49%)"
              [] k = 5 -> "@^^^^ (<30%)"]


Tiers == [k \in 1..5 |->
            CASE k = 5 -> "@@@@@ (90%+)"
              [] k = 4 -> "@@@@^ (70-89%)"
              [] k = 3 -> "@@@^^ (50-69%)"
              [] k = 2 -> "@@^^^ (30-49%)"
              [] k = 1 -> "@^^^^ (<30%)"]

-----------------------------------------------------------------------------
(* extract_digest_properties, lines 832-955: what is read from the text    *)

\* lines 833-838
SummaryOf(t) ==
    LET summary_match == Find(t, SummaryAnchor)
        summary_end   == FindFrom(t, "\n", summary_match)
    IN  IF summary_match # -1 /\ summary_end # -1
        THEN Strip(Slice(t, summary_match + 11, summary_end))
        ELSE ""

\* CleanCategory that does not cut at the em-dash: what C12 must tell apart
CleanCategory_NoDash(raw) ==
    IF raw # ""
    THEN Strip(Split(Split(raw, "(")[1], "/")[1])
    ELSE ""

\* lines 848-849: raw.split('(')[0].split(em-dash)[0].split('/')[0].strip()
CleanCategory(raw) ==
    IF raw # ""
    THEN Strip(Split(Split(Split(raw, "(")[1], "~")[1], "/")[1])
    ELSE ""

\* lines 852-857
VixOf(t) ==
    LET vix_str   == ExtractTableValue(t, RegimeMarker, VolatilityKey)
        vix_match == SearchNumber(vix_str, 0)
    IN  IF vix_str # "" /\ Contains(vix_str, "VIX") /\ vix_match.found
        THEN ParseFloat(Group1(vix_str, vix_match))
        ELSE 0

\* IndexInRange without the gate of 1000: what C2 must tell apart
IndexInRange_Open(value) == value > 0

\* value > 1000
IndexInRange(value) == value > 1000 * Scale

\* 1000 <= value <= 2000
FxInRange(value) == 1000 * Scale <= value /\ value <= 2000 * Scale

\* 0.5 <= value <= 10
YieldInRange(value) == 5 * Scale <= 10 * value /\ value <= 10 * Scale

\* SP500Of that stops at the first pattern that matches, in range or not: what
\* C14 must tell apart
SP500Of_StopsAtMatch(t) ==
    LET m1 == SearchSP500(t, 0)
        v1 == IF m1.found THEN ParseFloat(Group1(t, m1)) ELSE 0
        m2 == SearchLabelNumber(t, 0, "S&P", 4, 5, "")
        v2 == IF m2.found THEN ParseFloat(Group1(t, m2)) ELSE 0
    IN  IF m1.found THEN (IF IndexInRange(v1) THEN v1 ELSE 0)
        ELSE IF m2.found /\ IndexInRange(v2) THEN v2
        ELSE 0

\* lines 866-873: the two patterns in order; the first in-range match wins
SP500Of(t) ==
    LET m1 == SearchSP500(t, 0)
        v1 == IF m1.found THEN ParseFloat(Group1(t, m1)) ELSE 0
        m2 == SearchLabelNumber(t, 0, "S&P", 4, 5, "")
        v2 == IF m2.found THEN ParseFloat(Group1(t, m2)) ELSE 0
    IN  IF m1.found /\ IndexInRange(v1) THEN v1
        ELSE IF m2.found /\ IndexInRange(v2) THEN v2
        ELSE 0

\* lines 876-880
KospiOf(t) ==
    LET m == SearchLabelNumber(t, 0, "KOSPI", 4, 5, "")
        v == IF m.found THEN ParseFloat(Group1(t, m)) ELSE 0
    IN  IF m.found /\ IndexInRange(v) THEN v ELSE 0

\* lines 883-890
UsdKrwOf(t) ==
    LET m1 == SearchLabelNumber(t, 0, "USD/KRW", 4, 4, "")
        v1 == IF m1.found THEN ParseFloat(Group1(t, m1)) ELSE 0
        m2 == SearchLabelNumber(t, 0, "$;_", 4, 4, "")
        v2 == IF m2.found THEN ParseFloat(Group1(t, m2)) ELSE 0
    IN  IF m1.found /\ FxInRange(v1) THEN v1
        ELSE IF m2.found /\ FxInRange(v2) THEN v2
        ELSE 0

\* lines 893-901
Bond10yOf(t) ==
    LET m1 == SearchLabelNumber(t, 0, "10Y", 1, -1, "%")
        v1 == IF m1.found THEN ParseFloat(Group1(t, m1)) ELSE 0
        m2 == SearchLabelNumber(t, 0, "10{}", 1, -1, "%")
        v2 == IF m2.found THEN ParseFloat(Group1(t, m2)) ELSE 0
    IN  IF m1.found /\ YieldInRange(v1) THEN v1 \div 100
        ELSE IF m2.found /\ YieldInRange(v2) THEN v2 \div 100
        ELSE 0

\* lines 904-913
AtmosphereOf(t) ==
    LET atm_match == Find(t, AtmosphereAnchor)
        atm_end   == FindFrom(t, "\n", atm_match)
        parts     == Split(Slice(t, atm_match, atm_end), "**: ")
    IN  IF atm_match # -1 /\ atm_end # -1 /\ Len(parts) > 1
        THEN Strip(Split(parts[2], " ")[1])
        ELSE ""

\* NormalizeConfidence taking six or more stars for the top tier: what C6
\* must tell apart
NormalizeConfidence_Clamped(confidence_str) ==
    LET filled_stars == Count(confidence_str, Star)
    IN  IF filled_stars \in 1..5 THEN Tiers[filled_stars]
        ELSE IF filled_stars > 5 THEN Tiers[5]
        ELSE confidence_str

\* lines 921-934, for a non-empty cell
NormalizeConfidence(confidence_str) ==
    LET filled_stars == Count(confidence_str, Star)
    IN  IF filled_stars \in 1..5 THEN Tiers[filled_stars]
        ELSE confidence_str

\* lines 916-934
ConfidenceOf(t) ==
    LET confidence_str == ExtractTableValue(t, RegimeMarker, ConfidenceKey)
    IN  IF confidence_str # "" THEN NormalizeConfidence(confidence_str)
        ELSE ""


WordChars ==
    {CharAt(LowerCase, k) : k \in 0..25} \cup {CharAt(UpperCase, k) : k \in 0..25}
        \cup Digits \cup {"_", "{", "}", "$", ";"}

CodeChars == {CharAt(UpperCase, k) : k \in 0..25} \cup Digits

RECURSIVE RunOf(_, _, _)
\* the end of the longest run of characters of set cs that starts at k
RunOf(s, k, cs) ==
    IF k < Len(s) /\ CharAt(s, k) \in cs THEN RunOf(s, k + 1, cs) ELSE k

\* [\w<Hangul>]+\s*\([A-Z0-9]+\) anchored at k: the end of the match or -1
StockAt(s, k) ==
    LET a == RunOf(s, k, WordChars)
        b == SpaceRun(s, a)
        c == RunOf(s, b + 1, CodeChars)
    IN  IF a > k /\ StartsWithAt(s, "(", b) /\ c > b + 1
           /\ StartsWithAt(s, ")", c)
        THEN c + 1 ELSE -1

RECURSIVE FindAllStocks(_, _)
\* re.findall of the pattern above in s from k: the matches, left to right
FindAllStocks(s, k) ==
    LET hits == {j \in k..(Len(s) - 1) : StockAt(s, j) # -1}
        b    == Min(hits)
    IN  IF hits = {} THEN <<>>
        ELSE <<Slice(s, b, StockAt(s, b))>> \o FindAllStocks(s, StockAt(s, b))

\* seq[:n]
Take(seq, n) == IF Len(seq) <= n THEN seq ELSE SubSeq(seq, 1, n)

RECURSIVE Join(_, _)
\* sep.join(seq)
Join(seq, sep) ==
    IF seq = <<>> THEN ""
    ELSE IF Len(seq) = 1 THEN seq[1]
    ELSE seq[1] \o sep \o Join(Tail(seq), sep)

\* lines 937-948
PriorityOf(t) ==
    LET priority_match == Find(t, PriorityAnchor)
        priority_end   == FindFrom(t, "\n", priority_match)
        priority_line  == Slice(t, priority_match + 16, priority_end)
        stocks         == FindAllStocks(priority_line, 0)
    IN  IF priority_match # -1 /\ priority_end # -1 /\ stocks # <<>>
        THEN Join(Take(stocks, 3), ", ")
        ELSE ""

RECURSIVE KeywordsIn_Reversed(_, _)
\* KeywordsIn listing the matches from the end of the list: what C11 must
\* tell apart
KeywordsIn_Reversed(kws, head) ==
    IF kws = <<>> THEN <<>>
    ELSE KeywordsIn_Reversed(Tail(kws), head)
            \o (IF Contains(head, Head(kws)) THEN <<Head(kws)>> ELSE <<>>)

RECURSIVE KeywordsIn(_, _)
\* lines 951-955: the keywords of kws, in list order, that occur in head
KeywordsIn(kws, head) ==
    IF kws = <<>> THEN <<>>
    ELSE (IF Contains(head, Head(kws)) THEN <<Head(kws)>> ELSE <<>>)
            \o KeywordsIn(Tail(kws), head)

\* text[:2000] of line 953
KeywordWindow == 2000

\* KeywordsOf that looks at the whole text: what C19 must tell apart
KeywordsOf_WholeText(t) == KeywordsIn(KeywordList, t)


\* lines 951-955
KeywordsOf(t) == KeywordsIn(KeywordList, Slice(t, 0, KeywordWindow))

RECURSIVE Quoted(_)
Quoted(seq) ==
    IF seq = <<>> THEN <<>> ELSE <<"\"" \o Head(seq) \o "\"">> \o Quoted(Tail(seq))

\* json.dumps(seq, ensure_ascii=False) of a list of strings that need no
\* escape
JsonDumps(seq) == "[" \o Join(Quoted(seq), ", ") \o "]"

-----------------------------------------------------------------------------
(* fetch_realtime_market_data                                              *)

Keys == {"vix", "sp500", "kospi", "usdkrw", "bond_10y"}

\* lines 773-779
ZeroData == [k \in Keys |-> 0]

\* lines 785-791, in the iteration order of the dict
Symbols == <<[symbol |-> "^VIX",  key |-> "vix"],
             [symbol |-> "^GSPC", key |-> "sp500"],
             [symbol |-> "^KS11", key |-> "kospi"],
             [symbol |-> "KRW=X", key |-> "usdkrw"],
             [symbol |-> "^TNX",  key |-> "bond_10y"]>>

\* lines 799-809: the value stored for a last close of `value`
Rounded(key, value) ==
    CASE key = "vix"      -> Round(value, 1, 2)
      [] key = "sp500"    -> Round(value, 1, 1)
      [] key = "kospi"    -> Round(value, 1, 0)
      [] key = "usdkrw"   -> Round(value, 1, 0)
      [] key = "bond_10y" -> Round(value, 100, 4)

\* The last closes the quote source may return (fixed point).  None is a
\* value the texts of the model hold, so a replaced field shows.
CloseValues ==
    [k \in Keys |->
        CASE k = "vix"      -> {18456 * (Scale \div 1000)}    \* 18.456
          [] k = "sp500"    -> {600126 * (Scale \div 100)}    \* 6001.26
          [] k = "kospi"    -> {27014 * (Scale \div 10)}      \* 2701.4
          [] k = "usdkrw"   -> {13886 * (Scale \div 10)}      \* 1388.6
          [] k = "bond_10y" -> {4312 * (Scale \div 1000), 0}] \* 4.312, 0.0

\* one call of yf.download (line 795) and how it ended
Download(n, outcome) == [symbol |-> Symbols[n].symbol, outcome |-> outcome]

\* BackfillField without the test that the field is still 0.0: what C1 must
\* tell apart
BackfillField_NoGuard(cur, quote) == IF quote > 0 THEN quote ELSE cur

\* lines 963-972: a field is replaced only when it is 0.0 and the quote
\* is positive
BackfillField(cur, quote) == IF cur = 0 /\ quote > 0 THEN quote ELSE cur

Backfill(v, data) == [k \in Keys |-> BackfillField(v[k], data[k])]

\* NeedsFallback that always asks for quotes: what C7 must tell apart
NeedsFallback_Always(v) == TRUE

\* line 958
NeedsFallback(v) == \E k \in Keys : v[k] = 0

-----------------------------------------------------------------------------
(* extract_digest_properties                                               *)

DateStr == "2026-01-01"

TextValues(t) ==
    [vix      |-> VixOf(t),
     sp500    |-> SP500Of(t),
     kospi    |-> KospiOf(t),
     usdkrw   |-> UsdKrwOf(t),
     bond_10y |-> Bond10yOf(t)]

TextCategories(t) ==
    [summary           |-> SummaryOf(t),
     market_mode       |->
        CleanCategory(ExtractTableValue(t, RegimeMarker, MarketModeKey)),
     global_sentiment  |->
        CleanCategory(ExtractTableValue(t, RegimeMarker, GlobalSentimentKey)),
     market_atmosphere |-> AtmosphereOf(t),
     confidence        |-> ConfidenceOf(t),
     priority_stocks   |-> PriorityOf(t),
     keywords          |-> KeywordsOf(t)]

\* x or d
OrElse(x, d) == IF x # "" THEN x ELSE d

\* lines 975-991
BuildRecord(v, c) ==
    [title             |-> "[" \o DateStr \o "] "
                             \o (IF c.summary # "" THEN Slice(c.summary, 0, 100)
                                 ELSE DefaultTitle),
     date              |-> DateStr,
     market_mode       |-> OrElse(c.market_mode, Unknown),
     global_sentiment  |-> OrElse(c.global_sentiment, Unknown),
     vix               |-> v.vix,
     sp500             |-> v.sp500,
     kospi             |-> v.kospi,
     usdkrw            |-> v.usdkrw,
     bond_10y          |-> v.bond_10y,
     confidence        |-> OrElse(c.confidence, Unknown),
     market_atmosphere |-> OrElse(c.market_atmosphere, Unknown),
     keywords          |-> JsonDumps(Take(c.keywords, 6)),
     priority_stocks   |-> OrElse(c.priority_stocks, Unknown),
     summary           |-> OrElse(c.summary, DefaultSummary)]

NoRecord == [title |-> ""]

NoCategories == [summary |-> ""]


-----------------------------------------------------------------------------
(* parse_line_with_links                                                   *)

NoAnchor == [found |-> FALSE, start |-> -1, stop |-> -1,
             url |-> "", link_text |-> "", t0 |-> -1, t1 |-> -1]

\* <a\s+href="([^"]*)">([^<]*)</a> anchored at k.  [^"]* runs to the next
\* quote and [^<]* to the next "<", so the match at k is unique.
\* t0, t1: the span of group 2.
AnchorAt(s, k) ==
    LET a  == SpaceRun(s, k + 2)
        u0 == a + 6
        u1 == FindFrom(s, "\"", u0)
        t0 == u1 + 2
        t1 == FindFrom(s, "<", t0)
    IN  IF /\ StartsWithAt(s, "<a", k)
           /\ a > k + 2
           /\ StartsWithAt(s, "href=\"", a)
           /\ u1 # -1
           /\ StartsWithAt(s, "\">", u1)
           /\ t1 # -1
           /\ StartsWithAt(s, "</a>", t1)
        THEN [found |-> TRUE, start |-> k, stop |-> t1 + 4,
              url |-> Slice(s, u0, u1), link_text |-> Slice(s, t0, t1),
              t0 |-> t0, t1 |-> t1]
        ELSE NoAnchor

\* the next match of re.finditer from position k
NextAnchor(s, k) ==
    LET hits == {j \in k..(Len(s) - 1) : AnchorAt(s, j).found}
    IN  IF hits = {} THEN NoAnchor ELSE AnchorAt(s, Min(hits))

TextSpan(content) == [type |-> "text", content |-> content, link |-> <<>>]

\* the link is a one-element sequence, so that an empty url is a link too
LinkSpan(content, url) == [type |-> "text", content |-> content, link |-> <<url>>]

\* lines 608-614: the text before a match
PlainBefore(line, last_end, start) ==
    IF start > last_end THEN <<TextSpan(Slice(line, last_end, start))>> ELSE <<>>

\* Remaining that drops the text after the last match: what C4 must tell
\* apart
Remaining_Dropped(line, last_end) == <<>>

\* lines 629-635: the text after the last match
Remaining(line, last_end) ==
    IF last_end < Len(line) THEN <<TextSpan(SliceFrom(line, last_end))>> ELSE <<>>

RECURSIVE LinkLoop(_, _)
\* lines 605-635: the spans appended from last_end on
LinkLoop(line, last_end) ==
    LET m == NextAnchor(line, last_end)
    IN  IF m.found
        THEN PlainBefore(line, last_end, m.start)
                \o <<LinkSpan(m.link_text, m.url)>>
                \o LinkLoop(line, m.stop)
        ELSE Remaining(line, last_end)

ParseLineWithLinks(line) ==
    LET spans == LinkLoop(line, 0)
    IN  IF spans = <<>> THEN <<TextSpan(line)>> ELSE spans

-----------------------------------------------------------------------------
(* markdown_to_notion_blocks                                               *)

\* The end of the match at k of one of the three patterns of lines 653-656,
\* or -1:   "div"   <div[^>]*>      "/div"  </div>
\*          "other" <(?!a\s)(?!/a>)[^>]+>
TagEndAt(kind, s, k) ==
    LET close == FindFrom(s, ">", k + 1)
    IN  CASE kind = "div" ->
                IF StartsWithAt(s, "<div", k) /\ FindFrom(s, ">", k + 4) # -1
                THEN FindFrom(s, ">", k + 4) + 1 ELSE -1
          [] kind = "/div" ->
                IF StartsWithAt(s, "</div>", k) THEN k + 6 ELSE -1
          [] kind = "other" ->
                IF /\ StartsWithAt(s, "<", k)
                   /\ ~ (StartsWithAt(s, "a", k + 1)
                            /\ k + 2 < Len(s) /\ CharAt(s, k + 2) \in Whitespace)
                   /\ ~ StartsWithAt(s, "/a>", k + 1)
                   /\ close > k + 1
                THEN close + 1 ELSE -1

RECURSIVE RemoveTags(_, _, _)
\* re.sub(pattern, '', s) from position k on: every match, leftmost first
\* and none overlapping, is removed
RemoveTags(kind, s, k) ==
    LET hits == {j \in k..(Len(s) - 1) : TagEndAt(kind, s, j) # -1}
        b    == Min(hits)
    IN  IF hits = {} THEN SliceFrom(s, k)
        ELSE Slice(s, k, b) \o RemoveTags(kind, s, TagEndAt(kind, s, b))

\* lines 653-656
StripMarkup(t) ==
    RemoveTags("other", RemoveTags("/div", RemoveTags("div", t, 0), 0), 0)

MaxContent == 2000

\* x.strip()[:2000]
Content(x) == Slice(Strip(x), 0, MaxContent)

IsTableSeparator(line) ==
    StartsWith(Strip(line), "|") /\ Contains(line, "-") /\ Count(line, "-") > 3

IsNumbered(line) ==
    /\ Len(line) > 2
    /\ CharAt(line, 0) \in Digits
    /\ Slice(line, 1, 3) \in {". ", ") "}

TextBlock(type, content) ==
    [type |-> type, rich_text |-> ParseLineWithLinks(content)]

Divider == [type |-> "divider", rich_text |-> <<>>]

\* lines 666-728: the branch of the if-chain a line takes, named by the
\* type of the block it appends; "separator" (703-705) and "blank" append none
LineType(line) ==
    IF StartsWith(line, "# ") THEN "heading_1"
    ELSE IF StartsWith(line, "## ") THEN "heading_2"
    ELSE IF StartsWith(line, "### ") THEN "heading_3"
    ELSE IF Strip(line) = "---" THEN "divider"
    ELSE IF IsTableSeparator(line) THEN "separator"
    ELSE IF StartsWith(Strip(line), "- ") \/ StartsWith(Strip(line), "* ")
        THEN "bulleted_list_item"
    ELSE IF IsNumbered(line) THEN "numbered_list_item"
    ELSE IF Strip(line) # "" THEN "paragraph"
    ELSE "blank"

\* lines 667, 678, 689, 708, 718, 729: the text after the marker of the branch
AfterMarker(type, line) ==
    CASE type = "heading_1"          -> SliceFrom(line, 2)
      [] type = "heading_2"          -> SliceFrom(line, 3)
      [] type = "heading_3"          -> SliceFrom(line, 4)
      [] type = "bulleted_list_item" -> SliceFrom(Strip(line), 2)
      [] type = "numbered_list_item" -> SliceFrom(line, 3)
      [] OTHER                       -> line

\* lines 663-738: the blocks one turn of the loop appends for a line
BlocksOfLine(line) ==
    LET type == LineType(line)
    IN  IF type \in {"separator", "blank"} THEN <<>>
        ELSE IF type = "divider" THEN <<Divider>>
        ELSE <<TextBlock(type, Content(AfterMarker(type, line)))>>

\* line 1090
ChildrenLimit == 100

-----------------------------------------------------------------------------
(* The input texts of the model                                            *)

MaxStars == 6

RECURSIVE Stars(_)
Stars(n) == IF n = 0 THEN "" ELSE Star \o Stars(n - 1)

RegimeHeader == RegimeMarker \o " & temperature\n| item | value |\n|------|------|\n"

\* For each field: no line, a line with an accepted value, and lines whose
\* value the code rejects or reads in another way.
FieldLines ==
    [k \in Keys |->
        CASE k = "vix"      -> <<"", "| lmn op | VIX 21.3 (calm) |\n",
                                 "| lmn op | calm |\n">>
          [] k = "sp500"    -> <<"", "S&P 500: 5800\n", "S&P 500: 500\n",
                                 "S&P 500: 812.4\n", "S&P 500: 1000\n",
                                 "S&P 500: 5812.4 points\n",
                                 "S&P 500: 0999\nS&P: 5900\n">>
          [] k = "kospi"    -> <<"", "KOSPI: 2650.5\n", "KOSPI: 0950\n">>
          [] k = "usdkrw"   -> <<"", "USD/KRW: 1350\n", "USD/KRW: 2500\n",
                                 "USD/KRW: 0999\n", "$;_: 1400.5\n">>
          [] k = "bond_10y" -> <<"", "10Y: 4.25%\n", "10Y: 12%\n",
                                 "10{}: 0.3%\n", "10Y: 0.5%\n">>]

\* the text whose line for field k is FieldLines[k][choice[k]]
NumericText(choice) ==
    RegimeHeader \o FieldLines["vix"][choice["vix"]]
        \o FieldLines["sp500"][choice["sp500"]]
        \o FieldLines["kospi"][choice["kospi"]]
        \o FieldLines["usdkrw"][choice["usdkrw"]]
        \o FieldLines["bond_10y"][choice["bond_10y"]]

\* every field absent or accepted; or one field with any of its lines and
\* the others all absent or all accepted
NumericChoices ==
    [Keys -> {1, 2}] \cup
    {[k \in Keys |-> IF k = f THEN n ELSE base] :
        f \in Keys, n \in 1..7, base \in {1, 2}}

NumericTexts ==
    {NumericText(c) : c \in {c \in NumericChoices :
                                \A k \in Keys : c[k] <= Len(FieldLines[k])}}

ConfidenceCells ==
    {Stars(n) : n \in 0..MaxStars} \cup
    {"high", "@@@^^", "@ (low)", "@@@@@ (90%+)", "@@@@@@ 100%"}

FullNumbers == NumericText([k \in Keys |-> 2])

\* a regime table with the confidence cell `cell`, then the lines `rest`
ConfidenceText(cell, rest) ==
    RegimeMarker \o " & temperature\n| qr stu | " \o cell \o " |\n" \o rest

ConfidenceTexts ==
    {ConfidenceText(cell, rest) :
        cell \in ConfidenceCells, rest \in {"", FullNumbers}}
    \cup {RegimeHeader \o "| qr stu |\n"}

ExtractTexts == NumericTexts \cup ConfidenceTexts \cup {""}

-----------------------------------------------------------------------------
(* extract_digest_properties as a state machine                            *)

\* lines 832-955 on a str argument
ExtractFromText ==
    /\ op = "extract" /\ pc = "start" /\ IsStr(text)
    /\ vals' = TextValues(text.value)
    /\ textVals' = vals'
    /\ cats' = TextCategories(text.value)
    /\ pc' = "fallback"
    /\ UNCHANGED <<mainVars, slackVars, op, text, realtime_data, symIdx, fetchCalls, downloads,
                   properties, lines, i, blocks, blockLines, children,
                   rich_text, raised>>

\* line 834 on an argument that is not a str: text.find raises
ExtractNotText ==
    /\ op = "extract" /\ pc = "start" /\ ~ IsStr(text)
    /\ raised' = "AttributeError"
    /\ pc' = "raised"
    /\ UNCHANGED <<mainVars, slackVars, op, text, vals, textVals, cats, realtime_data, symIdx,
                   fetchCalls, downloads, properties, lines, i, blocks,
                   blockLines, children, rich_text>>

\* line 958 false: every field was read from the text
SkipFallback ==
    /\ op = "extract" /\ pc = "fallback" /\ ~ NeedsFallback(vals)
    /\ pc' = "build"
    /\ UNCHANGED <<mainVars, slackVars, op, text, vals, textVals, cats, realtime_data, symIdx,
                   fetchCalls, downloads, properties, lines, i, blocks,
                   blockLines, children, rich_text, raised>>

\* lines 958-960 and 773-779: the call of fetch_realtime_market_data
CallFetch ==
    /\ op = "extract" /\ pc = "fallback" /\ NeedsFallback(vals)
    /\ fetchCalls' = fetchCalls + 1
    /\ realtime_data' = ZeroData
    /\ pc' = "import"
    /\ UNCHANGED <<mainVars, slackVars, op, text, vals, textVals, cats, symIdx, downloads,
                   properties, lines, i, blocks, blockLines, children,
                   rich_text, raised>>

\* line 782 succeeds
ImportOk ==
    /\ pc = "import"
    /\ symIdx' = 1
    /\ pc' = "symbols"
    /\ UNCHANGED <<mainVars, slackVars, op, text, vals, textVals, cats, realtime_data, fetchCalls,
                   downloads, properties, lines, i, blocks, blockLines, children,
                   rich_text, raised>>

\* lines 782, 819-820, 824: yfinance is not installed
ImportFails ==
    /\ pc = "import"
    /\ pc' = "fetched"
    /\ UNCHANGED <<mainVars, slackVars, op, text, vals, textVals, cats, realtime_data, symIdx,
                   fetchCalls, downloads, properties, lines, i, blocks,
                   blockLines, children, rich_text, raised>>

\* DownloadRaises with the exception caught by the outer handler of line 821
\* only, so that the loop ends: what C8 must tell apart
DownloadRaises_Aborts ==
    /\ pc = "symbols" /\ symIdx <= Len(Symbols)
    /\ downloads' = Append(downloads, Download(symIdx, "raised"))
    /\ pc' = "fetched"
    /\ UNCHANGED <<mainVars, slackVars, op, text, vals, textVals, cats, realtime_data, symIdx,
                   fetchCalls, properties, lines, i, blocks, blockLines,
                   children, rich_text, raised>>

\* lines 795, 811-812: the download raises; the handler logs and goes on
DownloadRaises ==
    /\ pc = "symbols" /\ symIdx <= Len(Symbols)
    /\ downloads' = Append(downloads, Download(symIdx, "raised"))
    /\ symIdx' = symIdx + 1
    /\ UNCHANGED <<mainVars, slackVars, op, text, pc, vals, textVals, cats, realtime_data,
                   fetchCalls, properties, lines, i, blocks, blockLines, children,
                   rich_text, raised>>

\* lines 795-796: the download returns an empty frame
DownloadEmpty ==
    /\ pc = "symbols" /\ symIdx <= Len(Symbols)
    /\ downloads' = Append(downloads, Download(symIdx, "empty"))
    /\ symIdx' = symIdx + 1
    /\ UNCHANGED <<mainVars, slackVars, op, text, pc, vals, textVals, cats, realtime_data,
                   fetchCalls, properties, lines, i, blocks, blockLines, children,
                   rich_text, raised>>

\* lines 795-809: the download returns data; the last close is stored
DownloadClose ==
    /\ pc = "symbols" /\ symIdx <= Len(Symbols)
    /\ downloads' = Append(downloads, Download(symIdx, "close"))
    /\ \E value \in CloseValues[Symbols[symIdx].key] :
          realtime_data' =
              [realtime_data EXCEPT ![Symbols[symIdx].key] =
                  Rounded(Symbols[symIdx].key, value)]
    /\ symIdx' = symIdx + 1
    /\ UNCHANGED <<mainVars, slackVars, op, text, pc, vals, textVals, cats, fetchCalls, properties,
                   lines, i, blocks, blockLines, children,
                   rich_text, raised>>

\* lines 814-817, 824: the loop is over; the dict is returned
FetchReturn ==
    /\ pc = "symbols" /\ symIdx > Len(Symbols)
    /\ pc' = "fetched"
    /\ UNCHANGED <<mainVars, slackVars, op, text, vals, textVals, cats, realtime_data, symIdx,
                   fetchCalls, downloads, properties, lines, i, blocks,
                   blockLines, children, rich_text, raised>>

\* lines 963-972
UseRealtime ==
    /\ pc = "fetched"
    /\ vals' = Backfill(vals, realtime_data)
    /\ pc' = "build"
    /\ UNCHANGED <<mainVars, slackVars, op, text, textVals, cats, realtime_data, symIdx, fetchCalls,
                   downloads, properties, lines, i, blocks, blockLines, children,
                   rich_text, raised>>

\* lines 975-993
ReturnProperties ==
    /\ op = "extract" /\ pc = "build"
    /\ properties' = BuildRecord(vals, cats)
    /\ pc' = "done"
    /\ UNCHANGED <<mainVars, slackVars, op, text, vals, textVals, cats, realtime_data, symIdx,
                   fetchCalls, downloads, lines, i, blocks, blockLines, children,
                   rich_text, raised>>

-----------------------------------------------------------------------------
(* markdown_to_notion_blocks and the caller's cap, as a state machine      *)

\* lines 653-662 on a str argument: the markup is stripped, the text is cut
\* into lines and the scan starts
StartBlocks ==
    /\ op = "blocks" /\ pc = "start" /\ IsStr(text)
    /\ lines' = Split(StripMarkup(text.value), "\n")
    /\ i' = 0
    /\ blocks' = <<>>
    /\ pc' = "scan"
    /\ UNCHANGED <<mainVars, slackVars, op, text, vals, textVals, cats, realtime_data, symIdx,
                   fetchCalls, downloads, properties, blockLines, children,
                   rich_text, raised>>

\* line 653 on an argument that is not a str: re.sub raises
BlocksNotText ==
    /\ op = "blocks" /\ pc = "start" /\ ~ IsStr(text)
    /\ raised' = "TypeError"
    /\ pc' = "raised"
    /\ UNCHANGED <<mainVars, slackVars, op, text, vals, textVals, cats, realtime_data, symIdx,
                   fetchCalls, downloads, properties, lines, i, blocks,
                   blockLines, children, rich_text>>

\* lines 663-738: one turn of the loop on a line that appends a block.
\* blockLines records the index of the line the block came from.
EmitBlock ==
    /\ op = "blocks" /\ pc = "scan" /\ i < Len(lines)
    /\ BlocksOfLine(lines[i + 1]) # <<>>
    /\ blocks' = blocks \o BlocksOfLine(lines[i + 1])
    /\ blockLines' = Append(blockLines, i)
    /\ i' = i + 1
    /\ UNCHANGED <<mainVars, slackVars, op, text, pc, vals, textVals, cats, realtime_data, symIdx,
                   fetchCalls, downloads, properties, lines, children,
                   rich_text, raised>>

\* lines 663-738: one turn of the loop on a line that appends nothing
\* (a table separator 691-693, a blank line, or a fall-through)
SkipLine ==
    /\ op = "blocks" /\ pc = "scan" /\ i < Len(lines)
    /\ BlocksOfLine(lines[i + 1]) = <<>>
    /\ i' = i + 1
    /\ UNCHANGED <<mainVars, slackVars, op, text, pc, vals, textVals, cats, realtime_data, symIdx,
                   fetchCalls, downloads, properties, lines, blocks,
                   blockLines, children, rich_text, raised>>

\* lines 663, 740: the loop is over; the list is returned
ReturnBlocks ==
    /\ op = "blocks" /\ pc = "scan" /\ i >= Len(lines)
    /\ pc' = "returned"
    /\ UNCHANGED <<mainVars, slackVars, op, text, vals, textVals, cats, realtime_data, symIdx,
                   fetchCalls, downloads, properties, lines, i, blocks,
                   blockLines, children, rich_text, raised>>

\* BuildPayload keeping the last ChildrenLimit blocks: what C10 must tell
\* apart
BuildPayload_Tail ==
    /\ op = "blocks" /\ pc = "returned"
    /\ children' = IF Len(blocks) <= ChildrenLimit THEN blocks
                   ELSE SubSeq(blocks, Len(blocks) - ChildrenLimit + 1, Len(blocks))
    /\ pc' = "done"
    /\ UNCHANGED <<mainVars, slackVars, op, text, vals, textVals, cats, realtime_data, symIdx,
                   fetchCalls, downloads, properties, lines, i, blocks,
                   blockLines, rich_text, raised>>

\* send_to_notion lines 1078, 1090: "children": children[:100]
BuildPayload ==
    /\ op = "blocks" /\ pc = "returned"
    /\ children' = Take(blocks, ChildrenLimit)
    /\ pc' = "done"
    /\ UNCHANGED <<mainVars, slackVars, op, text, vals, textVals, cats, realtime_data, symIdx,
                   fetchCalls, downloads, properties, lines, i, blocks,
                   blockLines, rich_text, raised>>

-----------------------------------------------------------------------------
(* parse_line_with_links applied to a line                                 *)

\* lines 594-641
ResolveLine ==
    /\ op = "links" /\ pc = "start" /\ IsStr(text)
    /\ rich_text' = ParseLineWithLinks(text.value)
    /\ pc' = "done"
    /\ UNCHANGED <<mainVars, slackVars, op, text, vals, textVals, cats, realtime_data, symIdx,
                   fetchCalls, downloads, properties, lines, i, blocks,
                   blockLines, children, raised>>

-----------------------------------------------------------------------------
(* The documents and lines the block parser and the link resolver get      *)

MaxLines == 2

MaxSegs == 3

\* the sequences over S of length 1..n
SeqsUpTo(S, n) == UNION {[1..k -> S] : k \in 1..n}

RECURSIVE Repeat(_, _)
Repeat(s, n) ==
    IF n = 0 THEN ""
    ELSE IF n % 2 = 0
         THEN LET h == Repeat(s, n \div 2) IN h \o h
         ELSE s \o Repeat(s, n - 1)

LineKinds ==
    {"# ", "#", "# Title", "## Sub", "### Deep", "#### four", " # ind",
     "---", "----", "|------|", "| a | b |",
     "- item", "* item", "-", "- ",
     "1. one", "1. ", "12. twelve", "2) two", "  3. in",
     "para", "", "  ",
     "<div class=\"c\">in</div>", "<b>bold</b>", "<br>", "<div", "id=\"a\">tail",
     "see <a href=\"u\">link</a>", "# <a href=\"u\"></a>"}

ShortTexts == {Join(ls, "\n") : ls \in SeqsUpTo(LineKinds, MaxLines)} \cup {""}

TailKinds == {"p", "", "# h", "---", "|----|"}

\* a separator row, n paragraphs, then a few lines: documents of about
\* ChildrenLimit blocks
LongText(n, tail) == "|----|\n" \o Repeat("x\n", n) \o Join(tail, "\n")

LongTexts ==
    {LongText(n, tail) :
        n \in {ChildrenLimit - 1, ChildrenLimit},
        tail \in SeqsUpTo(TailKinds, MaxLines) \cup {<<>>}}

BlockTexts == ShortTexts \cup LongTexts

LinkSegs ==
    {"<a href=\"u\">t</a>", "<a href=\"\"></a>", "<a  href=\"v\">two w</a>",
     "x", " up 5% ", "<a", "</a>", "<b>", "\">"}

RECURSIVE Concat(_)
Concat(seq) == IF seq = <<>> THEN "" ELSE Head(seq) \o Concat(Tail(seq))

LinkLines == {Concat(segs) : segs \in SeqsUpTo(LinkSegs, MaxSegs)} \cup {""}

-----------------------------------------------------------------------------
(* More documents for extract_digest_properties.  Each ends with           *)
(* FullNumbers, so that the five numeric fields are read from the text.    *)

MaxKeywordsInText == 2

KeywordSet == {KeywordList[n] : n \in 1..Len(KeywordList)}

\* a first line `body`, then the regime table and the numbers
WithNumbers(body) == body \o "\n" \o FullNumbers

\* keywords in any order of the text, and all ten of them
KeywordBodies ==
    {Join(ks, " ") : ks \in SeqsUpTo(KeywordSet, MaxKeywordsInText)}
    \cup {Join(KeywordList, " "),
          Join([n \in 1..Len(KeywordList) |->
                   KeywordList[Len(KeywordList) + 1 - n]], ", ")}

KeywordTexts == {WithNumbers(body) : body \in KeywordBodies}

\* the five lines FullNumbers has under the regime header
NumberLines ==
    FieldLines["vix"][2] \o FieldLines["sp500"][2] \o FieldLines["kospi"][2]
        \o FieldLines["usdkrw"][2] \o FieldLines["bond_10y"][2]

\* table cells for market mode and global sentiment ("~" is the em-dash)
CategoryCells ==
    {"riskoff (safe haven)", "riskon ~ rally", "mixed/neutral", "calm",
     "a / b (c) ~ d", "up ~ (x) / y", "(all)", "~", "x(y", " wide "}

\* a regime table with the two category rows, then the numbers
CategoryText(mode, sentiment) ==
    RegimeHeader \o "| ab ef | " \o mode \o " |\n"
        \o "| ghi jk | " \o sentiment \o " |\n" \o NumberLines

CategoryTexts ==
    {CategoryText(mode, sentiment) :
        mode \in CategoryCells, sentiment \in CategoryCells}

\* the fields that have two label patterns
AltKeys == {"sp500", "usdkrw", "bond_10y"}

\* for each of them and each of its two patterns: no line, a line with a value
\* in range, a line with a value out of range
AltLines ==
    [k \in AltKeys |->
        CASE k = "sp500"    -> <<<<"", "S&P 500: 5800\n", "S&P 500: 0999\n">>,
                                 <<"", "S&P: 5900\n", "S&P: 0998\n">>>>
          [] k = "usdkrw"   -> <<<<"", "USD/KRW: 1350\n", "USD/KRW: 2500\n">>,
                                 <<"", "$;_: 1400.5\n", "$;_: 0999\n">>>>
          [] k = "bond_10y" -> <<<<"", "10Y: 4.25%\n", "10Y: 12%\n">>,
                                 <<"", "10{}: 3.5%\n", "10{}: 0.3%\n">>>>]

\* the two lines of field f, the second pattern's line first when swapped
AltPair(f, a, b, swapped) ==
    IF swapped THEN AltLines[f][2][b] \o AltLines[f][1][a]
    ELSE AltLines[f][1][a] \o AltLines[f][2][b]

\* a text where field f has the lines a and b and the others an accepted line
AltText(f, a, b, swapped) ==
    LET lineOf(k) == IF k = f THEN AltPair(f, a, b, swapped)
                     ELSE FieldLines[k][2]
    IN  RegimeHeader \o lineOf("vix") \o lineOf("sp500") \o lineOf("kospi")
            \o lineOf("usdkrw") \o lineOf("bond_10y")

AltTexts ==
    {AltText(f, a, b, swapped) :
        f \in AltKeys, a \in 1..3, b \in 1..3, swapped \in BOOLEAN}

MaxRows == 3

\* lines under the regime header: the market-mode row, a row whose first cell
\* begins with that label, a row without spaces behind the label, a row of
\* another label, and the heading of the next section
TableRowKinds ==
    {"| ab ef | riskon |\n", "| ab ef detail | wrong |\n",
     "| ab ef|tight |\n", "| zz | other |\n", "\n## 1. next\n"}

\* the regime section with the numbers and then the rows; and the rows alone
TableTexts ==
    {RegimeHeader \o NumberLines \o Join(rows, "") :
        rows \in SeqsUpTo(TableRowKinds, MaxRows)}
    \cup {"| ab ef | riskon |\n"}

\* what stands behind the summary anchor on its line
SummaryBodies ==
    {" market falls", "rates up", " ok", "  padded  ", "",
     " " \o Repeat("long ", 24)}

\* the summary line, then the regime table and the numbers
SummaryTexts ==
    {SummaryAnchor \o body \o "\n" \o FullNumbers : body \in SummaryBodies}

\* the lines of the four fields that are read from the whole text
IndexLines ==
    FieldLines["sp500"][2] \o FieldLines["kospi"][2]
        \o FieldLines["usdkrw"][2] \o FieldLines["bond_10y"][2]

\* volatility readings: in the table cell behind a number, in the cell with a
\* large value, and on a line outside the regime table
VixTexts ==
    {RegimeHeader \o "| lmn op | day 3 of VIX 25 |\n" \o IndexLines,
     RegimeHeader \o "| lmn op | VIX 250.5 |\n" \o IndexLines,
     "VIX: 21.3\n" \o RegimeHeader \o IndexLines,
     RegimeHeader \o IndexLines \o "\n## 1. next\nVIX 19.5\n"}

\* what stands behind the priority marker on its line
PriorityLines ==
    {" Samsung (005930), Hynix (000660)",
     " Samsung (005930), Hynix (000660), Naver (035420), Kakao (035720)",
     "    Naver(035420)", " none today", ""}

\* the priority line, a line with another instrument, then the numbers
PriorityTexts ==
    {PriorityAnchor \o line \o "\nOther (111111)\n" \o FullNumbers :
        line \in PriorityLines}

\* a keyword in the window, n filler characters, a second keyword on the
\* border of the window, then the numbers
BorderText(n) == "AI " \o Repeat("x", n) \o "MNQ" \o "\n" \o FullNumbers

\* the second keyword ends before, at, and behind the border of the window
BorderTexts ==
    {BorderText(n) : n \in (KeywordWindow - 8)..(KeywordWindow - 2)}

FieldTexts == KeywordTexts \cup CategoryTexts \cup AltTexts \cup TableTexts \cup SummaryTexts \cup VixTexts \cup PriorityTexts \cup BorderTexts

-----------------------------------------------------------------------------
(* main                                                                    *)

MaxNews == 2

Channels == {"slack", "email", "notion"}

\* DeliveryStatus(...).__dict__
DeliveryStatus(enabled, attempted, success, detail) ==
    [enabled |-> enabled, attempted |-> attempted, success |-> success,
     detail |-> detail]

\* lines 1165-1185
InitialReport ==
    [status     |-> "failed",
     news_count |-> 0,
     delivery   |-> [c \in Channels |->
                        DeliveryStatus(FALSE, FALSE, FALSE, "not_attempted")],
     error      |-> "None"]

NoNewsError == "No recent articles from GDELT."

AllFailedError == "All delivery methods failed."

\* Escalates that takes a channel that was not attempted for a failed one:
\* what C20 must tell apart
Escalates_CountsUnattempted(delivery) ==
    \A c \in Channels : ~ delivery[c].success

\* lines 1219-1224: all_failed and any(attempted)
Escalates(delivery) ==
    LET attempted  == {c \in Channels : delivery[c].attempted}
        all_failed ==
            \A c \in attempted :
                delivery[c].attempted /\ ~ delivery[c].success
    IN  all_failed /\ attempted # {}

\* Except without the finally clause behind it: what C21 must tell apart
Except_SkipsReport(rep, exc) ==
    /\ report' = [rep EXCEPT !.error = exc]
    /\ raised' = exc
    /\ pc' = "raised"

\* the except clause of lines 1229-1231: the error is noted and re-raised
Except(rep, exc) ==
    /\ report' = [rep EXCEPT !.error = exc]
    /\ raised' = exc
    /\ pc' = "finally"

\* line 1188: fetch_recent_news raises
FetchNewsRaises ==
    /\ op = "main" /\ pc = "start"
    /\ Except(report, "fetch_recent_news failed")
    /\ UNCHANGED <<op, called, written, digestVars, slackVars>>

\* lines 1188-1191: no news item
FetchNewsEmpty ==
    /\ op = "main" /\ pc = "start"
    /\ Except([report EXCEPT !.news_count = 0], NoNewsError)
    /\ UNCHANGED <<op, called, written, digestVars, slackVars>>

\* lines 1188-1190: n news items
FetchNews ==
    /\ op = "main" /\ pc = "start"
    /\ \E n \in 1..MaxNews : report' = [report EXCEPT !.news_count = n]
    /\ pc' = "generate"
    /\ UNCHANGED <<op, raised, called, written, digestVars, slackVars>>

\* line 1193: generate_digest raises
GenerateRaises ==
    /\ op = "main" /\ pc = "generate"
    /\ Except(report, "generate_digest failed")
    /\ UNCHANGED <<op, called, written, digestVars, slackVars>>

\* line 1193: a digest
GenerateDigest ==
    /\ op = "main" /\ pc = "generate"
    /\ pc' = "slack"
    /\ UNCHANGED <<op, raised, report, called, written, digestVars, slackVars>>

\* the call of send_<channel> at position `at` gave `status`, or raised and
\* the except clause built `status`; the next position is `next`
Deliver(at, next, status) ==
    /\ op = "main" /\ pc = at
    /\ called' = Append(called, at)
    /\ report' = [report EXCEPT !.delivery[at] = status]
    /\ pc' = next
    /\ UNCHANGED <<op, raised, written, digestVars, slackVars>>

\* lines 328-330: no webhook
SlackNotConfigured ==
    Deliver("slack", "email",
            DeliveryStatus(FALSE, FALSE, FALSE, "webhook_not_configured"))

\* lines 333-345
SlackSent ==
    Deliver("slack", "email", DeliveryStatus(TRUE, TRUE, TRUE, "sent_chunks=1"))

\* lines 335-336 raise, lines 1197-1200
SlackRaises ==
    Deliver("slack", "email",
            DeliveryStatus(TRUE, TRUE, FALSE, "error=HTTPError"))

\* lines 357-364: settings missing, or no recipient
EmailNotConfigured ==
    \E detail \in {"smtp_not_fully_configured", "mail_to_empty"} :
        Deliver("email", "notion", DeliveryStatus(FALSE, FALSE, FALSE, detail))

\* lines 580-591
EmailSent ==
    Deliver("email", "notion",
            DeliveryStatus(TRUE, TRUE, TRUE, "recipients=1"))

\* lines 580-583 raise, lines 1205-1208
EmailRaises ==
    Deliver("email", "notion",
            DeliveryStatus(TRUE, TRUE, FALSE, "error=SMTPException"))

\* lines 1006-1014
NotionNotConfigured ==
    Deliver("notion", "decide",
            DeliveryStatus(FALSE, FALSE, FALSE, "notion_not_configured"))

\* lines 1115-1120
NotionSent ==
    Deliver("notion", "decide", DeliveryStatus(TRUE, TRUE, TRUE, "page_id=1"))

\* lines 1122-1129: send_to_notion catches its exception and returns a status
NotionFails ==
    Deliver("notion", "decide",
            DeliveryStatus(TRUE, TRUE, FALSE, "error: HTTPError"))

\* lines 1219-1225: every attempted channel failed
RaiseAllFailed ==
    /\ op = "main" /\ pc = "decide"
    /\ Escalates(report.delivery)
    /\ Except(report, AllFailedError)
    /\ UNCHANGED <<op, called, written, digestVars, slackVars>>

\* lines 1219-1228
Succeed ==
    /\ op = "main" /\ pc = "decide"
    /\ ~ Escalates(report.delivery)
    /\ report' = [report EXCEPT !.status = "success"]
    /\ pc' = "finally"
    /\ UNCHANGED <<op, raised, called, written, digestVars, slackVars>>

\* lines 1232-1233: the finally clause, then main returns or its exception
\* goes on
WriteRunReport ==
    /\ op = "main" /\ pc = "finally"
    /\ written' = Append(written, report)
    /\ pc' = IF raised = "none" THEN "done" ELSE "raised"
    /\ UNCHANGED <<op, raised, report, called, digestVars, slackVars>>

-----------------------------------------------------------------------------
(* split_for_slack                                                         *)

MaxTextLen == 4

MaxChunk == 3

\* remaining.rfind(sub, lo, hi): the last position of sub in remaining[lo:hi]
RFind(s, sub, lo, hi) ==
    LET end  == Min({hi, Len(s)})
        hits == {j \in lo..(end - Len(sub)) : StartsWithAt(s, sub, j)}
    IN  IF hits = {} THEN -1 ELSE Max(hits)

\* CutAt that looks for the newline in all of the text, not in its first
\* `size` characters: what C22 must tell apart
CutAt_AnyNewline(s, size) ==
    LET cut == RFind(s, "\n", 0, Len(s))
    IN  IF cut <= 0 THEN size ELSE cut

\* lines 316-318
CutAt(s, size) ==
    LET cut == RFind(s, "\n", 0, size)
    IN  IF cut <= 0 THEN size ELSE cut

\* lines 313-314
StartSplit ==
    /\ op = "split" /\ pc = "start"
    /\ remaining' = text.value
    /\ chunks' = <<>>
    /\ pc' = "loop"
    /\ UNCHANGED <<op, raised, chunk_size, mainVars, digestVars>>

\* lines 315-320: one turn of the while loop
SplitChunk ==
    /\ op = "split" /\ pc = "loop"
    /\ Len(remaining) > chunk_size
    /\ LET cut == CutAt(remaining, chunk_size)
       IN  /\ chunks' = Append(chunks, Strip(Slice(remaining, 0, cut)))
           /\ remaining' = Strip(SliceFrom(remaining, cut))
    /\ UNCHANGED <<op, pc, raised, chunk_size, mainVars, digestVars>>

\* lines 315, 321-323: the loop ends, the rest is the last chunk
ReturnChunks ==
    /\ op = "split" /\ pc = "loop"
    /\ ~ (Len(remaining) > chunk_size)
    /\ chunks' = IF remaining # "" THEN Append(chunks, remaining) ELSE chunks
    /\ pc' = "done"
    /\ UNCHANGED <<op, raised, chunk_size, remaining, mainVars, digestVars>>

\* the texts of at most n characters over a letter, a digit, a blank and a
\* newline
RECURSIVE SlackTexts(_)
SlackTexts(n) ==
    IF n = 0 THEN {""}
    ELSE LET shorter == SlackTexts(n - 1)
         IN  shorter \cup {t \o c : t \in shorter, c \in {"a", "1", " ", "\n"}}

-----------------------------------------------------------------------------

InitLocals ==
    /\ pc = "start"
    /\ vals = ZeroData
    /\ textVals = ZeroData
    /\ cats = NoCategories
    /\ realtime_data = ZeroData
    /\ symIdx = 0
    /\ fetchCalls = 0
    /\ downloads = <<>>
    /\ properties = NoRecord
    /\ lines = <<>>
    /\ i = 0
    /\ blocks = <<>>
    /\ blockLines = <<>>
    /\ children = <<>>
    /\ rich_text = <<>>
    /\ raised = "none"
    /\ report = InitialReport
    /\ called = <<>>
    /\ written = <<>>
    /\ remaining = ""
    /\ chunks = <<>>

\* chunk_size of the operations that have no such argument
NoChunkSize == 0

InitExtract ==
    /\ op = "extract"
    /\ chunk_size = NoChunkSize
    /\ text \in {Str(t) : t \in ExtractTexts \cup FieldTexts} \cup {NoneValue}
    /\ InitLocals

InitBlocks ==
    /\ op = "blocks"
    /\ chunk_size = NoChunkSize
    /\ text \in {Str(t) : t \in BlockTexts} \cup {NoneValue}
    /\ InitLocals

InitLinks ==
    /\ op = "links"
    /\ chunk_size = NoChunkSize
    /\ text \in {Str(t) : t \in LinkLines}
    /\ InitLocals

\* main takes no argument
InitMain ==
    /\ op = "main"
    /\ chunk_size = NoChunkSize
    /\ text = NoneValue
    /\ InitLocals

NextExtract ==
    \/ ExtractFromText
    \/ ExtractNotText
    \/ SkipFallback
    \/ CallFetch
    \/ ImportOk
    \/ ImportFails
    \/ DownloadRaises
    \/ DownloadEmpty
    \/ DownloadClose
    \/ FetchReturn
    \/ UseRealtime
    \/ ReturnProperties

NextBlocks ==
    \/ StartBlocks
    \/ BlocksNotText
    \/ EmitBlock
    \/ SkipLine
    \/ ReturnBlocks
    \/ BuildPayload

NextLinks == ResolveLine

\* every text of the family with every chunk_size from 1
InitSplit ==
    /\ op = "split"
    /\ text \in {Str(t) : t \in SlackTexts(MaxTextLen)}
    /\ chunk_size \in 1..MaxChunk
    /\ InitLocals

NextSplit ==
    \/ StartSplit
    \/ SplitChunk
    \/ ReturnChunks

NextMain ==
    \/ FetchNewsRaises
    \/ FetchNewsEmpty
    \/ FetchNews
    \/ GenerateRaises
    \/ GenerateDigest
    \/ SlackNotConfigured
    \/ SlackSent
    \/ SlackRaises
    \/ EmailNotConfigured
    \/ EmailSent
    \/ EmailRaises
    \/ NotionNotConfigured
    \/ NotionSent
    \/ NotionFails
    \/ RaiseAllFailed
    \/ Succeed
    \/ WriteRunReport

Init == InitExtract \/ InitBlocks \/ InitLinks \/ InitMain \/ InitSplit

Next == NextExtract \/ NextBlocks \/ NextLinks \/ NextMain \/ NextSplit

SpecExtract == InitExtract /\ [][NextExtract]_vars

\* a step that leaves the reading of the text: ExtractFromText is the only
\* action that takes one
ReadStep ==
    op = "extract" /\ pc = "start" /\ IsStr(text) /\ pc' = "fallback"

\* the steps after the reading of the text
StepAfterRead ==
    \/ SkipFallback
    \/ CallFetch
    \/ ImportOk
    \/ ImportFails
    \/ DownloadRaises
    \/ DownloadEmpty
    \/ DownloadClose
    \/ FetchReturn
    \/ UseRealtime
    \/ ReturnProperties

\* The call is sequential code: the interpreter always runs its next
\* statement, and yf.download returns or raises.
FairExtract == SpecExtract /\ WF_pc(ReadStep) /\ WF_vars(StepAfterRead)

SpecBlocks == InitBlocks /\ [][NextBlocks]_vars

SpecLinks == InitLinks /\ [][NextLinks]_vars

SpecMain == InitMain /\ [][NextMain]_vars

\* main runs to its end: nothing outside stops it between two statements
FairMain == SpecMain /\ WF_vars(NextMain)

SpecSplit == InitSplit /\ [][NextSplit]_vars

\* split_for_slack runs without interruption
FairSplit == SpecSplit /\ WF_vars(NextSplit)

Spec == Init /\ [][Next]_vars

-----------------------------------------------------------------------------
(* Properties                                                              *)

Returned == op = "extract" /\ pc = "done"

\* C1: a numeric field that the text set to a non-zero value is returned with
\* exactly that value whatever the quote lookup gave; a returned value
\* differs from the text's only where the text left 0 and a quote was positive.
C1_TextValueKept ==
    Returned =>
        \A k \in Keys :
            /\ textVals[k] # 0 => properties[k] = textVals[k]
            /\ properties[k] # textVals[k] =>
                  /\ textVals[k] = 0
                  /\ realtime_data[k] > 0
                  /\ properties[k] = realtime_data[k]

\* a field read from the text, a different positive quote for it, and the
\* text's value returned
C1_Witness ==
    /\ Returned
    /\ \E k \in Keys :
          /\ textVals[k] # 0
          /\ realtime_data[k] > 0
          /\ realtime_data[k] # textVals[k]
          /\ properties[k] = textVals[k]
    /\ \E k \in Keys : textVals[k] = 0 /\ properties[k] = realtime_data[k]
                                      /\ properties[k] > 0

\* C2: with no data from the quote source, sp500 and kospi are 0 or above
\* 1000, usdkrw is 0 or within [1000, 2000], bond_10y is 0 or within
\* [0.5, 10] / 100; an S&P 500 value of 500, 812.4 or 1000 leaves sp500 at 0
\* and 5800 sets it.
C2_RangeGates ==
    (Returned /\ realtime_data = ZeroData) =>
        /\ properties.sp500 = 0 \/ properties.sp500 > 1000 * Scale
        /\ properties.kospi = 0 \/ properties.kospi > 1000 * Scale
        /\ \/ properties.usdkrw = 0
           \/ /\ 1000 * Scale <= properties.usdkrw
              /\ properties.usdkrw <= 2000 * Scale
        /\ \/ properties.bond_10y = 0
           \/ /\ 5 * Scale <= 10 * 100 * properties.bond_10y
              /\ 100 * properties.bond_10y <= 10 * Scale
        /\ \A low \in {"S&P 500: 500\n", "S&P 500: 812.4\n", "S&P 500: 1000\n"} :
              Contains(text.value, low) => properties.sp500 = 0
        /\ Contains(text.value, "S&P 500: 5800\n") =>
              properties.sp500 = 5800 * Scale

\* the quote source was asked and gave nothing; 5800 was taken for sp500 and
\* 0950 was not taken for kospi
C2_Witness ==
    /\ Returned
    /\ fetchCalls = 1 /\ Len(downloads) = Len(Symbols)
    /\ realtime_data = ZeroData
    /\ Contains(text.value, "S&P 500: 5800\n")
    /\ properties.sp500 = 5800 * Scale
    /\ Contains(text.value, "KOSPI: 0950\n")
    /\ properties.kospi = 0

\* the text of a block: its span contents in order
BlockText(block) ==
    Concat([n \in 1..Len(block.rich_text) |-> block.rich_text[n].content])

\* C3: every heading, list item and paragraph has a non-empty span list with
\* non-empty text; a line that is empty after its marker gives no block.
C3_NoEmptyBlock ==
    op = "blocks" =>
        \A n \in 1..Len(blocks) :
            blocks[n].type # "divider" =>
                /\ blocks[n].rich_text # <<>>
                /\ BlockText(blocks[n]) # ""

\* the positions of the anchor matches of a line
AnchorStarts(line) == {k \in 0..(Len(line) - 1) : AnchorAt(line, k).found}

RECURSIVE Ascending(_)
\* a finite set of numbers as an increasing sequence
Ascending(S) ==
    IF S = {} THEN <<>> ELSE <<Min(S)>> \o Ascending(S \ {Min(S)})

\* the line with each matched anchor replaced by its inner text
Visible(line) ==
    LET hidden(p) == \E k \in AnchorStarts(line) :
                        LET m == AnchorAt(line, k)
                        IN  /\ m.start <= p /\ p < m.stop
                            /\ ~ (m.t0 <= p /\ p < m.t1)
    IN  Concat([p \in 1..Len(line) |->
                   IF hidden(p - 1) THEN "" ELSE CharAt(line, p - 1)])

\* the link spans of a span list, in order
LinkSpans(spans) == SelectSeq(spans, LAMBDA sp : sp.link # <<>>)

\* C4: for a line with N anchor matches the result has between 1 and 2N+1
\* spans and exactly N link spans, which are the matches from left to right;
\* the span contents concatenate to the line with each anchor replaced by
\* its inner text; with N = 0 the result is one text span holding the line.
C4_SpansOfLine ==
    (op = "links" /\ pc = "done") =>
        LET line    == text.value
            matches == Ascending(AnchorStarts(line))
            N       == Len(matches)
            links   == LinkSpans(rich_text)
        IN  /\ 1 <= Len(rich_text) /\ Len(rich_text) <= 2 * N + 1
            /\ Len(links) = N
            /\ \A j \in 1..N :
                  links[j] = LinkSpan(AnchorAt(line, matches[j]).link_text,
                                      AnchorAt(line, matches[j]).url)
            /\ Concat([n \in 1..Len(rich_text) |-> rich_text[n].content])
                  = Visible(line)
            /\ N = 0 => rich_text = <<TextSpan(line)>>

\* a line with text, one link and text again: 2N+1 spans for N = 1
C4_Witness ==
    /\ op = "links" /\ pc = "done"
    /\ Cardinality(AnchorStarts(text.value)) = 1
    /\ Len(rich_text) = 3
    /\ rich_text[2].link # <<>>
    /\ rich_text[1].link = <<>> /\ rich_text[3].link = <<>>

\* the tier the documentation gives for k filled stars
TierOfStars(k) ==
    CASE k = 5 -> "@@@@@ (90%+)"
      [] k = 4 -> "@@@@^ (70-89%)"
      [] k = 3 -> "@@@^^ (50-69%)"
      [] k = 2 -> "@@^^^ (30-49%)"
      [] k = 1 -> "@^^^^ (<30%)"

\* the text holds a regime table whose confidence cell is `cell`
HasConfidenceCell(cell) ==
    \E rest \in {"", FullNumbers} : text = Str(ConfidenceText(cell, rest))

\* C5: a confidence cell with k filled stars, k in 1..5, gives the tier of k;
\* with no filled star it gives the cell's text, or "unknown" when the cell
\* is empty or the row is missing.
C5_ConfidenceOfStars ==
    Returned =>
        /\ \A cell \in ConfidenceCells :
              (HasConfidenceCell(cell) /\ Count(cell, Star) <= 5) =>
                  properties.confidence =
                      IF Count(cell, Star) >= 1 THEN TierOfStars(Count(cell, Star))
                      ELSE IF cell # "" THEN cell
                      ELSE Unknown
        /\ ~ Contains(text.value, ConfidenceKey) =>
              properties.confidence = Unknown

\* a cell of three filled and two hollow stars gave the 50-69% tier
C5_Witness ==
    /\ Returned
    /\ HasConfidenceCell("@@@^^")
    /\ properties.confidence = "@@@^^ (50-69%)"

C7_FetchOnlyForMissing ==
    op = "extract" =>
        /\ fetchCalls <= 1
        /\ fetchCalls = 1 =>
              /\ pc \notin {"start", "fallback"}
              /\ \E k \in Keys : textVals[k] = 0
        /\ downloads # <<>> => fetchCalls = 1
        /\ (pc \in {"build", "done"} /\ \A k \in Keys : textVals[k] # 0) =>
              fetchCalls = 0 /\ downloads = <<>>

\* the text gave some fields and not others, and one fetch asked for all
\* five symbols
C7_Witness ==
    /\ Returned
    /\ fetchCalls = 1
    /\ Len(downloads) = Len(Symbols)
    /\ \E k \in Keys : textVals[k] # 0
    /\ \E k \in Keys : textVals[k] = 0

\* the n-th download raised or came back empty
Failed(n) == downloads[n].outcome \in {"raised", "empty"}

\* the safety part of C8: a download that raises or is empty leaves its key
\* at 0; once the import succeeded all five symbols are asked in order; the
\* dict has the five keys; nothing is raised; the returned field is 0 when
\* the text missed it too
C8_FailedLookupSafe ==
    (op = "extract" /\ IsStr(text)) =>
        /\ DOMAIN realtime_data = Keys
        /\ \A n \in 1..Len(downloads) :
              /\ downloads[n].symbol = Symbols[n].symbol
              /\ Failed(n) => realtime_data[Symbols[n].key] = 0
        /\ (pc \in {"fetched", "build", "done"} /\ downloads # <<>>) =>
              Len(downloads) = Len(Symbols)
        /\ raised = "none"
        /\ pc = "done" =>
              \A n \in 1..Len(downloads) :
                  (Failed(n) /\ textVals[Symbols[n].key] = 0) =>
                      properties[Symbols[n].key] = 0

\* C8: a download that raises or is empty leaves its key at 0 and the other
\* symbols are still asked; the dict has the five keys; extraction of a text
\* never raises and reaches its return, where the field is 0 when the text
\* missed it too.
C8_FailedLookupTolerated ==
    /\ []C8_FailedLookupSafe
    /\ (op = "extract" /\ IsStr(text)) ~> Returned

\* one download raised, a later one gave a value, and the record was
\* returned with 0 for the first and the quote for the second
C8_Witness ==
    /\ Returned
    /\ \E n, m \in 1..Len(downloads) :
          /\ n < m
          /\ downloads[n].outcome = "raised"
          /\ textVals[Symbols[n].key] = 0
          /\ properties[Symbols[n].key] = 0
          /\ downloads[m].outcome = "close"
          /\ textVals[Symbols[m].key] = 0
          /\ properties[Symbols[m].key] > 0

\* C9: the empty text gives no block and an all-default record, and neither
\* the empty text nor an argument that is not text makes an operation raise.
C9_MalformedInputTolerated ==
    (text = Str("") \/ ~ IsStr(text)) =>
        /\ raised = "none"
        /\ (op = "blocks" /\ pc \in {"returned", "done"}) => blocks = <<>>
        /\ Returned =>
              /\ \A k \in Keys : properties[k] = 0
              /\ properties.market_mode = Unknown
              /\ properties.global_sentiment = Unknown
              /\ properties.confidence = Unknown
              /\ properties.market_atmosphere = Unknown
              /\ properties.keywords = "[]"
              /\ properties.priority_stocks = Unknown

\* C10: every block is the block of the line its index names, the indexes
\* increase strictly, and the children sent are the first blocks: those of
\* the lines before some cut, none of them from a line after a block left out.
C10_PrefixOfLines ==
    (op = "blocks" /\ pc = "done") =>
        /\ Len(blockLines) = Len(blocks)
        /\ \A n \in 1..Len(blocks) :
              /\ blockLines[n] \in 0..(Len(lines) - 1)
              /\ <<blocks[n]>> = BlocksOfLine(lines[blockLines[n] + 1])
              /\ n > 1 => blockLines[n - 1] < blockLines[n]
        /\ Len(children) = IF Len(blocks) <= ChildrenLimit THEN Len(blocks)
                           ELSE ChildrenLimit
        /\ \A n \in 1..Len(children) : children[n] = blocks[n]
        /\ \A n \in 1..Len(children) :
              \A m \in (Len(children) + 1)..Len(blocks) :
                  blockLines[n] < blockLines[m]
        /\ \E cut \in 0..Len(lines) :
              {blockLines[n] : n \in 1..Len(children)}
                  = {j \in 0..(cut - 1) : BlocksOfLine(lines[j + 1]) # <<>>}

\* a document of more than ChildrenLimit blocks, with a line that gave no
\* block before the cut, was capped
C10_Witness ==
    /\ op = "blocks" /\ pc = "done"
    /\ Len(blocks) > ChildrenLimit
    /\ Len(children) = ChildrenLimit
    /\ blockLines[1] > 0
    /\ blocks[Len(blocks)] # children[Len(children)]

\* the position of a keyword in the fixed list
ListIndex(k) == CHOOSE n \in 1..Len(KeywordList) : KeywordList[n] = k

\* the keywords the record keeps: keywords[:6] of line 988
KeptKeywords == Take(cats.keywords, 6)

\* C11 as stated: the keywords field holds at most 6 distinct strings, in
\* the order in which they are first seen in the text.
C11_FirstSeenOrder ==
    Returned =>
        /\ Len(KeptKeywords) <= 6
        /\ \A m, n \in 1..Len(KeptKeywords) :
              m < n =>
                  /\ KeptKeywords[m] # KeptKeywords[n]
                  /\ Find(text.value, KeptKeywords[m])
                        <= Find(text.value, KeptKeywords[n])

\* C11 amended: the keywords field holds at most 6 distinct strings of the
\* fixed list, each occurring in the text, in the order of the fixed list,
\* whatever the order in which the text has them.
C11_ListOrder ==
    Returned =>
        /\ properties.keywords = JsonDumps(KeptKeywords)
        /\ Len(KeptKeywords) <= 6
        /\ \A n \in 1..Len(KeptKeywords) :
              /\ KeptKeywords[n] \in KeywordSet
              /\ Contains(text.value, KeptKeywords[n])
        /\ \A m, n \in 1..Len(KeptKeywords) :
              m < n => ListIndex(KeptKeywords[m]) < ListIndex(KeptKeywords[n])

\* the text has "AI" before "HuJ"; the field lists "HuJ" first
C11_Witness ==
    /\ Returned
    /\ text = Str(WithNumbers("AI HuJ"))
    /\ properties.keywords = "[\"HuJ\", \"AI\"]"

\* the characters a category is cut at ("~" is the em-dash)
CutChars == {"(", "~", "/"}

\* a raw value cut at the first of the cut characters, then trimmed, and the
\* sentinel when nothing is left
CutCategory(raw) ==
    LET cuts == {j \in 0..(Len(raw) - 1) : CharAt(raw, j) \in CutChars}
        kept == Strip(IF cuts = {} THEN raw ELSE Slice(raw, 0, Min(cuts)))
    IN  IF kept = "" THEN Unknown ELSE kept

\* C12: market mode and global sentiment are the raw cell cut at the first
\* "(", em-dash or "/", trimmed, or "unknown" when nothing is left; they hold
\* none of the three characters.
C12_CategoryCut ==
    Returned =>
        /\ \A mode, sentiment \in CategoryCells :
              text = Str(CategoryText(mode, sentiment)) =>
                  /\ properties.market_mode = CutCategory(Strip(mode))
                  /\ properties.global_sentiment = CutCategory(Strip(sentiment))
        /\ \A c \in CutChars :
              /\ ~ Contains(properties.market_mode, c)
              /\ ~ Contains(properties.global_sentiment, c)

\* "riskoff (safe haven)" gave "riskoff", "riskon ~ rally" gave "riskon"
C12_Witness ==
    /\ Returned
    /\ text = Str(CategoryText("riskoff (safe haven)", "riskon ~ rally"))
    /\ properties.market_mode = "riskoff"
    /\ properties.global_sentiment = "riskon"

\* the blocks that came from line j of the document
BlocksFrom(j) == {n \in 1..Len(blocks) : blockLines[n] = j}

\* the kind of list item or paragraph the documentation gives a line that is
\* no heading, divider or table separator. The numbered form is looked for
\* after the leading whitespace only, so that a marker with nothing behind it
\* ("1. ") counts as a numbered item, as the parser has it.
ItemKind(line) ==
    LET t == Strip(line)
        l == LStrip(line)
    IN  IF StartsWith(t, "- ") \/ StartsWith(t, "* ") THEN "bulleted_list_item"
        ELSE IF Len(l) > 2 /\ CharAt(l, 0) \in Digits
                /\ Slice(l, 1, 3) \in {". ", ") "} THEN "numbered_list_item"
        ELSE IF t # "" THEN "paragraph"
        ELSE "blank"

\* the text the item holds: what follows the marker
ItemText(line) ==
    CASE ItemKind(line) = "bulleted_list_item" -> Strip(SliceFrom(Strip(line), 2))
      [] ItemKind(line) = "numbered_list_item" -> Strip(SliceFrom(LStrip(line), 3))
      [] OTHER                                 -> Strip(line)

\* C13: a line that is no heading, divider or table separator gives a
\* bulleted item when its trimmed form starts with "- " or "* ", a numbered
\* item when its trimmed form is a digit, "." or ")" and a space (leading
\* whitespace or not), a paragraph when it is otherwise not blank, and no
\* block when it is blank; the item holds the text after the marker.
C13_ListItems ==
    (op = "blocks" /\ pc = "done") =>
        \A j \in 0..(Len(lines) - 1) :
            LET line == lines[j + 1]
            IN  LineType(line) \notin
                    {"heading_1", "heading_2", "heading_3", "divider",
                     "separator"} =>
                    IF ItemKind(line) = "blank" THEN BlocksFrom(j) = {}
                    ELSE \E n \in 1..Len(blocks) :
                            /\ BlocksFrom(j) = {n}
                            /\ blocks[n].type = ItemKind(line)
                            /\ ~ Contains(line, "<a") =>
                                  BlockText(blocks[n]) = ItemText(line)

\* what one label pattern gives: whether it matched, the number of its first
\* match, whether that number is in the field's range
Candidate(t, m, inRange) ==
    [found |-> m.found,
     value |-> IF m.found THEN ParseFloat(Group1(t, m)) ELSE 0,
     ok    |-> inRange]

\* the two candidates of each field that has two patterns, in pattern order
Alternates(t) ==
    LET num(m) == IF m.found THEN ParseFloat(Group1(t, m)) ELSE 0
        sp1 == SearchSP500(t, 0)
        sp2 == SearchLabelNumber(t, 0, "S&P", 4, 5, "")
        fx1 == SearchLabelNumber(t, 0, "USD/KRW", 4, 4, "")
        fx2 == SearchLabelNumber(t, 0, "$;_", 4, 4, "")
        by1 == SearchLabelNumber(t, 0, "10Y", 1, -1, "%")
        by2 == SearchLabelNumber(t, 0, "10{}", 1, -1, "%")
    IN  [sp500    |-> <<Candidate(t, sp1, IndexInRange(num(sp1))),
                        Candidate(t, sp2, IndexInRange(num(sp2)))>>,
         usdkrw   |-> <<Candidate(t, fx1, FxInRange(num(fx1))),
                        Candidate(t, fx2, FxInRange(num(fx2)))>>,
         bond_10y |-> <<Candidate(t, by1, YieldInRange(num(by1))),
                        Candidate(t, by2, YieldInRange(num(by2)))>>]

\* the value a field stores for a number: the yield is stored as a fraction
Stored(k, value) == IF k = "bond_10y" THEN value \div 100 ELSE value

\* C14: for sp500, usdkrw and bond_10y the label patterns are tried in their
\* fixed order: the field is the number of the first pattern whose match is in
\* range, whatever a later pattern matched; a pattern whose match is out of
\* range counts as a miss and the next one is tried; the field is 0 when no
\* pattern has a match in range.
C14_FirstAlternateInRange ==
    Returned =>
        LET alts == Alternates(text.value)
        IN  \A k \in AltKeys :
                LET first  == alts[k][1]
                    second == alts[k][2]
                IN  /\ (first.found /\ first.ok) =>
                          textVals[k] = Stored(k, first.value)
                    /\ (~ (first.found /\ first.ok)
                          /\ second.found /\ second.ok) =>
                          textVals[k] = Stored(k, second.value)
                    /\ (~ (first.found /\ first.ok)
                          /\ ~ (second.found /\ second.ok)) =>
                          textVals[k] = 0

\* the first pattern matched a number out of range, the second one a number
\* in range, and the field has the second number
C14_Witness ==
    /\ Returned
    /\ text = Str(AltText("sp500", 3, 2, FALSE))
    /\ textVals["sp500"] = 5900 * Scale
    /\ properties["sp500"] = 5900 * Scale

\* the trimmed cells of a table row: what stands between the "|"
Cells(line) ==
    LET parts == Split(Strip(line), "|")
    IN  [n \in 1..(Len(parts) - 1) |-> Strip(parts[n + 1])]

\* the documented lookup: the span from the first section marker to the next
\* top-level section marker or the end; the second cell of the first row of
\* the span whose first cell is the label; "" without marker or row
TableCell(t, section_marker, label) ==
    LET from  == Find(t, section_marker)
        to    == FindFrom(t, "\n## ", from + Len(section_marker))
        span  == IF to # -1 THEN Slice(t, from, to) ELSE SliceFrom(t, from)
        ls    == Split(span, "\n")
        rows  == {n \in 1..Len(ls) :
                    /\ StartsWith(Strip(ls[n]), "|")
                    /\ Len(Cells(ls[n])) >= 2
                    /\ Cells(ls[n])[1] = label}
    IN  IF from = -1 \/ rows = {} THEN "" ELSE Cells(ls[Min(rows)])[2]

\* C15: the table lookup reads only the span from the first section marker to
\* the next top-level section marker (or the end) and gives the trimmed second
\* cell of the first row there whose first cell equals the label, never a row
\* whose first cell only begins with the label nor a row behind the next
\* section marker, and "" when marker or row is absent; seen here in the
\* market mode, which is that cell or "unknown".
C15_RowOfLabel ==
    (Returned /\ text.value \in TableTexts) =>
        properties.market_mode =
            CutCategory(TableCell(text.value, RegimeMarker, MarketModeKey))

\* the documented summary: the text from just behind the anchor to the next
\* newline, trimmed
SummaryLine(t) ==
    LET from == Find(t, SummaryAnchor) + Len(SummaryAnchor)
        nl   == FindFrom(t, "\n", from)
    IN  Strip(Slice(t, from, IF nl = -1 THEN Len(t) ELSE nl))

\* C16: when the text has the summary anchor, the summary is the text from
\* just behind the anchor's last character to the next newline, trimmed, with
\* no character of it dropped, and the title is the date and the first 100
\* characters of that summary.
C16_SummaryAfterAnchor ==
    (Returned /\ Contains(text.value, SummaryAnchor)
        /\ SummaryLine(text.value) # "") =>
        /\ properties.summary = SummaryLine(text.value)
        /\ properties.title =
              "[" \o DateStr \o "] " \o Slice(SummaryLine(text.value), 0, 100)

\* the documented reading: the first number behind the first "VIX" of the
\* whole text, 0 without label or number
VixAfterLabel(t) ==
    LET label == Find(t, "VIX")
        m     == SearchNumber(t, label + 3)
    IN  IF label # -1 /\ m.found THEN ParseFloat(Group1(t, m)) ELSE 0

\* C17: vix is read from the whole text, not only from the regime section: it
\* is the first number behind the volatility index label, never a number
\* before the label, and of any size.
C17_VixAfterLabel ==
    Returned => textVals["vix"] = VixAfterLabel(text.value)

\* the documented instruments: the "name (CODE)" matches of the text between
\* the end of the marker and the next newline, the first 3 joined by ", ", and
\* the sentinel without marker or match
InstrumentsOfLine(t) ==
    LET at     == Find(t, PriorityAnchor)
        from   == at + Len(PriorityAnchor)
        nl     == FindFrom(t, "\n", from)
        stocks == FindAllStocks(Slice(t, from, IF nl = -1 THEN Len(t) ELSE nl), 0)
    IN  IF at = -1 \/ stocks = <<>> THEN Unknown
        ELSE Join(Take(stocks, 3), ", ")

\* C18: with the priority marker in the text, the priority instruments are
\* built only from the text between the end of the marker and the next
\* newline: the first 3 or fewer "name (CODE)" matches of that line in their
\* order, each name complete, joined by ", "; and "unknown" when the marker is
\* absent or the line has no match.
C18_InstrumentsOfLine ==
    Returned => properties.priority_stocks = InstrumentsOfLine(text.value)

\* the positions in the fixed list of the keywords that occur in the first
\* KeywordWindow characters of t
Matching(t) ==
    {n \in 1..Len(KeywordList) :
        Contains(Slice(t, 0, KeywordWindow), KeywordList[n])}

RECURSIVE Ascending6(_, _)
\* the keywords at the (at most) `room` smallest positions of the set, in
\* ascending position
Ascending6(positions, room) ==
    IF positions = {} \/ room = 0 THEN <<>>
    ELSE <<KeywordList[Min(positions)]>>
            \o Ascending6(positions \ {Min(positions)}, room - 1)

\* C19: a keyword is in the keywords field only if it occurs as a substring in
\* the first 2000 characters of the text; the field lists the first 6 such
\* keywords of the fixed list, in the list's order; an occurrence behind
\* character 2000 adds nothing.
C19_KeywordsOfWindow ==
    Returned =>
        /\ properties.keywords = JsonDumps(Ascending6(Matching(text.value), 6))
        /\ \A n \in 1..Len(KeywordList) :
              (Contains(text.value, KeywordList[n]) /\ n \notin Matching(text.value))
                  => ~ Contains(properties.keywords, Quoted(<<KeywordList[n]>>)[1])

\* "AI" at the start of the text and "MNQ" across the border of the window:
\* the field lists "AI" alone
C19_Witness ==
    /\ Returned
    /\ text = Str(BorderText(KeywordWindow - 4))
    /\ Contains(text.value, "MNQ")
    /\ properties.keywords = "[\"AI\"]"

\* main is over
MainOver == op = "main" /\ pc \in {"done", "raised"}

\* main got a digest from generate_digest
DigestGenerated ==
    /\ op = "main" /\ pc \notin {"start", "generate"}
    /\ report.news_count > 0
    /\ report.error # "generate_digest failed"

\* the channels whose delivery was attempted
Attempted == {c \in Channels : report.delivery[c].attempted}

\* C20: once main has a digest, Slack, email and Notion are each called, in
\* that order, whether or not an earlier one raised; the run ends with "All
\* delivery methods failed" exactly when at least one channel was attempted
\* and no attempted channel succeeded; a channel that is not configured
\* counts for nothing, so a run without a configured channel ends in success.
C20_EscalatesIffAllAttemptedFailed ==
    /\ op = "main" =>
          \E n \in 0..3 : called = SubSeq(<<"slack", "email", "notion">>, 1, n)
    /\ (MainOver /\ DigestGenerated) =>
          /\ called = <<"slack", "email", "notion">>
          /\ raised \in {"none", AllFailedError}
          /\ raised = AllFailedError <=>
                /\ Attempted # {}
                /\ \A c \in Attempted : ~ report.delivery[c].success
          /\ Attempted = {} => raised = "none"
          /\ raised = "none" <=> report.status = "success"
          /\ written = <<report>>

\* Slack raised, email was not configured, Notion was still called and
\* failed: the run ended with the escalation
C20_Witness ==
    /\ MainOver /\ DigestGenerated
    /\ report.delivery["slack"].detail = "error=HTTPError"
    /\ ~ report.delivery["email"].attempted
    /\ report.delivery["notion"].attempted
    /\ ~ report.delivery["notion"].success
    /\ called = <<"slack", "email", "notion">>
    /\ raised = AllFailedError

\* every attempted channel failed, and one was attempted
AllDeliveriesFailed ==
    Attempted # {} /\ \A c \in Attempted : ~ report.delivery[c].success

\* what holds of the report in every state of main: it is written at most
\* once and nothing follows the writing; when main is over the written report
\* is the final one, success without error needs a digest and a delivery that
\* did not fail altogether, and every other run has a failed report with the
\* message of the exception that main re-raises
ReportWritten ==
    op = "main" =>
        /\ Len(written) <= 1
        /\ written # <<>> <=> MainOver
        /\ MainOver =>
              /\ written = <<report>>
              /\ report.status \in {"success", "failed"}
              /\ (report.status = "success" /\ report.error = "None") =>
                    /\ DigestGenerated /\ ~ AllDeliveriesFailed
                    /\ pc = "done" /\ raised = "none"
              /\ ~ (DigestGenerated /\ ~ AllDeliveriesFailed) =>
                    /\ report.status = "failed"
                    /\ report.error # "None"
                    /\ report.error = raised
                    /\ pc = "raised"

\* C21: on every path of main (no news, fetch or generation failure, all
\* deliveries failed, success) write_run_report is called exactly once, as the
\* last step: every run comes to its end, and there the one written report is
\* the final report; it has status "success" without error only when a digest
\* was generated and not all deliveries failed, and otherwise status "failed"
\* with the message of the exception, which is re-raised after the writing.
C21_ReportWrittenOnceLast ==
    /\ [] ReportWritten
    /\ (op = "main" /\ pc = "start") ~> (MainOver /\ Len(written) = 1)

\* a run without news: the report was written once, with status failed and
\* the message of the exception, and the exception went on
C21_Witness ==
    /\ MainOver
    /\ pc = "raised"
    /\ raised = NoNewsError
    /\ written = <<[report EXCEPT !.status = "failed", !.error = NoNewsError]>>
    /\ written = <<report>>
    /\ called = <<>>

RECURSIVE NonWhitespace(_)
\* the characters of s that are no whitespace, in their order
NonWhitespace(s) ==
    IF s = "" THEN ""
    ELSE (IF Head(s) \in Whitespace THEN "" ELSE SubSeq(s, 1, 1))
            \o NonWhitespace(Tail(s))

\* what holds in every state of split_for_slack: no chunk is longer than
\* chunk_size, and the chunks so far followed by the rest have the
\* non-whitespace characters of the text, each once and in their order
ChunksKeepText ==
    (op = "split" /\ pc # "start") =>
        /\ \A n \in 1..Len(chunks) : Len(chunks[n]) <= chunk_size
        /\ NonWhitespace(Join(chunks, "")
                            \o (IF pc = "loop" THEN remaining ELSE ""))
              = NonWhitespace(text.value)

\* a turn of the loop leaves a shorter rest
RestShrinks ==
    (op = "split" /\ pc = "loop" /\ pc' = "loop") =>
        Len(remaining') < Len(remaining)

\* C22: for every text and every chunk_size >= 1 split_for_slack comes to its
\* end; every chunk has at most chunk_size characters; the chunks in order
\* hold the non-whitespace characters of the text in their order, none lost
\* and none twice; the rest gets strictly shorter with every turn of the loop.
C22_SplitKeepsTextAndEnds ==
    /\ [] ChunksKeepText
    /\ [][RestShrinks]_vars
    /\ (op = "split" /\ pc = "start") ~> (op = "split" /\ pc = "done")

\* a text longer than chunk_size with a newline among its first chunk_size
\* characters: it was cut there, and the newline is in no chunk
C22_Witness ==
    /\ op = "split" /\ pc = "done"
    /\ text = Str("a\n1a")
    /\ chunk_size = 2
    /\ chunks = <<"a", "1a">>

=============================================================================
